---- MODULE Spec2Model ----
(***************************************************************************)
(* Model of gigaam/stream.py (class AudioStream): the lock-protected       *)
(* audio buffer, the background worker _process_stream with its            *)
(* speech/silence state machine, and the public operations                 *)
(* add_audio_chunk, reset and stop running on the caller's thread.         *)
(*                                                                         *)
(* A sample is a triple <<c, k, a>>: c is the number of the                *)
(* add_audio_chunk call that brought it, k its position in that chunk and  *)
(* a its amplitude (1 stands for 1.0).  A chunk, a drained block and a     *)
(* sub-chunk are sequences of samples.  Every statement that reads or      *)
(* writes a field shared by the two threads is a step of its own.          *)
(***************************************************************************)
EXTENDS Integers, Sequences, FiniteSets

---------------------------------------------------------------------------
(* Bounds of the model *)

\* add_audio_chunk calls in one behaviour
MaxAppends == 3
\* longest chunk a call may pass (longer than max_buffer_samples)
MaxChunkLen == 4
\* reset() calls in one behaviour
MaxResets == 1
\* reset() calls in a row, from any session state
ResetRuns == 2
\* stop() calls in one behaviour
MaxStops == 1
\* largest input amplitude (above 1.0, so that normalisation happens)
MaxAmp == 2

---------------------------------------------------------------------------
(* Constructor parameters, scaled down (stream.py, __init__) *)

sample_rate == 3
chunk_size == 2
buffer_size == 1
stabilization_frames == 2
\* threshold = threshold_num / threshold_den (0.01)
threshold_num == 1
threshold_den == 100
\* min_silence_duration = min_silence_num / min_silence_den (0.8)
min_silence_num == 8
min_silence_den == 10

max_buffer_samples == buffer_size * sample_rate
\* int(min_silence_duration * sample_rate): truncation of a non-negative value
min_silence_samples == (min_silence_num * sample_rate) \div min_silence_den

---------------------------------------------------------------------------
(* Pure helpers *)

\* torch.cat of a list of tensors
RECURSIVE Concat(_)
Concat(chunks) ==
    IF chunks = <<>> THEN <<>> ELSE Head(chunks) \o Concat(Tail(chunks))

\* sum(chunk.shape[0] for chunk in chunks)
RECURSIVE Total(_)
Total(chunks) ==
    IF chunks = <<>> THEN 0 ELSE Len(Head(chunks)) + Total(Tail(chunks))

Abs(n) == IF n < 0 THEN -n ELSE n

RECURSIVE MaxAbs(_)
MaxAbs(audio) ==
    IF audio = <<>> THEN 0
    ELSE LET m == MaxAbs(Tail(audio))
             h == Abs(Head(audio)[3])
         IN IF h > m THEN h ELSE m

\* the tensor a caller passes: len samples of amplitude amp, numbered id
NewChunk(id, len, amp) == [k \in 1..len |-> <<id, k, amp>>]

\* add_audio_chunk: divide by the peak when the peak exceeds 1.0
Normalize(audio) ==
    IF MaxAbs(audio) > 1
    THEN [k \in 1..Len(audio) |->
            <<audio[k][1], audio[k][2], audio[k][3] \div MaxAbs(audio)>>]
    ELSE audio

RECURSIVE SumSq(_)
SumSq(audio) ==
    IF audio = <<>> THEN 0
    ELSE Head(audio)[3] * Head(audio)[3] + SumSq(Tail(audio))

\* (audio ** 2).mean() > threshold
_detect_speech_energy(audio) ==
    /\ audio # <<>>
    /\ SumSq(audio) * threshold_den > threshold_num * Len(audio)

\* a detector that classifies by energy
_detect_speech_by_energy(audio) == _detect_speech_energy(audio)

\* the detector the worker calls: its first statement is "return True"
_detect_speech(audio) == TRUE

\* the external ASR model: an opaque function of the audio it is given,
\* represented by that audio
_recognize_audio(audio) == audio

MakeResult(segment, final) ==
    [text |-> _recognize_audio(segment), duration |-> Len(segment),
     is_final |-> final]

\* the chunk numbers of the samples of a piece of audio
IdsOf(audio) == {audio[k][1] : k \in 1..Len(audio)}

---------------------------------------------------------------------------
(* State *)

VARIABLES
    \* AudioStream fields
    audio_buffer,      \* list of chunks, guarded by buffer_lock
    buffer_lock,       \* "free", "caller" or "worker"
    is_speaking,
    silence_counter,
    speaking_buffer,   \* list of sub-chunks of the run in progress
    vad_buffer,
    interim_results,
    final_results,
    running,
    has_callback,      \* whether a callback was passed to __init__
    \* locals of _process_stream and _perform_interim_recognition
    wpc,               \* the worker's position
    audio_chunk,       \* the drained block
    i,                 \* offset of the next sub-chunk in the block
    subchunk,
    result,
    silence_seen,      \* the value "self.silence_counter += n" read and has yet to store
    \* locals of the operation running on the caller's thread
    cpc,               \* the caller's position
    arg,               \* add_audio_chunk's audio_chunk, after normalisation
    total_samples,
    \* history, read by the properties only
    nCalls,            \* add_audio_chunk calls made so far
    nResets,           \* reset() calls made so far
    resetMark,         \* nCalls when reset() was last called, else -1
    nStops,            \* stop() calls made so far
    stopMark,          \* nCalls when stop() first cleared running, else -1
    sinceStop,         \* sub-chunks classified and results emitted while running was false
    evicted,           \* numbers of the chunks popped by the cap
    cleared,           \* numbers of the chunks dropped by reset()
    drained,           \* numbers of the chunks drained, in drain order
    tornDrain,         \* a drain happened between an append and its eviction
    addPre,            \* the buffer right after the last append, before eviction
    sinceEmpty,        \* chunks appended since the buffer was last drained or reset
    heard,             \* every sub-chunk classified, in order
    emitted,           \* every result appended to a result list, in order
    callback_log,      \* every argument the callback was called with, in order
    runOpen,           \* a run was seeded and neither finalized nor reset since
    doubleSeed,        \* a run was seeded while runOpen
    atStart,           \* the session at the start of the behaviour
    \* the VAD strategy (_detect_speech_vad), which the worker never calls
    use_vad,
    built,             \* what __init__ was given and found
    vad_ret,           \* what the last _detect_speech_vad call returned
    vad_in,            \* the audio passed to that call
    vad_oracle,        \* "unused", "failed" or "answered" in that call
    nVadCalls,
    \* segment_audio (vad_utils.py)
    wav_ms,            \* len(audio): the length of the audio in milliseconds
    pipeline_ok,       \* get_pipeline returns a pipeline
    sad_segments,      \* the support of the timeline the pipeline returns
    spc,               \* the position in segment_audio
    seg_i,             \* index of the next segment of the for loop
    curr_start,
    curr_end,
    curr_duration,
    segments,          \* the slices cut, as <<start_ms, end_ms>>
    boundaries

fields == <<audio_buffer, buffer_lock, is_speaking, silence_counter,
            speaking_buffer, vad_buffer, interim_results, final_results,
            running, has_callback>>
wlocals == <<wpc, audio_chunk, i, subchunk, result, silence_seen>>
clocals == <<cpc, arg, total_samples>>
history == <<nCalls, nResets, resetMark, nStops, stopMark, sinceStop, evicted, cleared, drained,
             tornDrain, addPre, sinceEmpty, heard, emitted,
             callback_log, runOpen, doubleSeed, atStart>>
vadvars == <<use_vad, built, vad_ret, vad_in, vad_oracle, nVadCalls>>
segvars == <<wav_ms, pipeline_ok, sad_segments, spc, seg_i, curr_start,
             curr_end, curr_duration, segments, boundaries>>
\* what the operations of a running session leave alone
apart == <<vadvars, segvars>>
vars == <<fields, wlocals, clocals, history, apart>>

\* the session as it is
Snapshot ==
    [audio_buffer |-> audio_buffer, is_speaking |-> is_speaking,
     silence_counter |-> silence_counter, speaking_buffer |-> speaking_buffer,
     vad_buffer |-> vad_buffer, interim_results |-> interim_results,
     final_results |-> final_results, running |-> running,
     has_callback |-> has_callback]

\* the fields and locals of a session just built, the worker thread started
InitStream ==
    /\ audio_buffer = <<>>
    /\ buffer_lock = "free"
    /\ is_speaking = FALSE
    /\ silence_counter = 0
    /\ speaking_buffer = <<>>
    /\ vad_buffer = <<>>
    /\ interim_results = <<>>
    /\ final_results = <<>>
    /\ running = TRUE
    /\ has_callback \in BOOLEAN
    /\ wpc = "while"
    /\ audio_chunk = <<>>
    /\ i = 0
    /\ subchunk = <<>>
    /\ result = MakeResult(<<>>, FALSE)
    /\ silence_seen = 0
    /\ cpc = "idle"
    /\ arg = <<>>
    /\ total_samples = 0
    /\ nCalls = 0
    /\ nResets = 0
    /\ resetMark = -1
    /\ nStops = 0
    /\ stopMark = -1
    /\ sinceStop = [heard |-> 0, emitted |-> 0]
    /\ evicted = {}
    /\ cleared = {}
    /\ drained = <<>>
    /\ tornDrain = FALSE
    /\ addPre = <<>>
    /\ sinceEmpty = <<>>
    /\ heard = <<>>
    /\ emitted = <<>>
    /\ callback_log = <<>>
    /\ runOpen = FALSE
    /\ doubleSeed = FALSE
    /\ atStart = Snapshot

\* what __init__ is given and finds: the use_vad argument, whether vad_utils
\* could be imported, whether HF_TOKEN is set, whether get_pipeline returns
Built(wanted, available, token, loads) ==
    [use_vad |-> wanted, VAD_AVAILABLE |-> available, HF_TOKEN |-> token,
     loads |-> loads]

\* self.use_vad as __init__ leaves it
InitUseVad(b) ==
    IF ~(b.use_vad /\ b.VAD_AVAILABLE) THEN FALSE
    ELSE IF ~b.HF_TOKEN THEN FALSE
    ELSE b.loads

\* no _detect_speech_vad call made yet, on a session built as b
NoVadCall(b) ==
    /\ built = b
    /\ use_vad = InitUseVad(b)
    /\ vad_ret = "none"
    /\ vad_in = <<>>
    /\ vad_oracle = "unused"
    /\ nVadCalls = 0

\* segment_audio not called
NoSegmentAudio ==
    /\ wav_ms = 0
    /\ pipeline_ok = FALSE
    /\ sad_segments = <<>>
    /\ spc = "none"
    /\ seg_i = 0
    /\ curr_start = 0
    /\ curr_end = 0
    /\ curr_duration = 0
    /\ segments = <<>>
    /\ boundaries = <<>>

\* __init__: the state after construction where HF_TOKEN is not set, so that
\* use_vad is False (the worker never reads it: see _detect_speech)
Init ==
    /\ InitStream
    /\ NoVadCall(Built(TRUE, TRUE, FALSE, FALSE))
    /\ NoSegmentAudio

\* the number of the chunk a buffered chunk came from
ChunkId(chunk) == chunk[1][1]

RECURSIVE ChunkIds(_)
ChunkIds(chunks) ==
    IF chunks = <<>> THEN <<>>
    ELSE <<ChunkId(Head(chunks))>> \o ChunkIds(Tail(chunks))

SeqToSet(s) == {s[k] : k \in 1..Len(s)}

---------------------------------------------------------------------------
(* add_audio_chunk, on the caller's thread *)

\* the call: conversion to a tensor and normalisation, before the lock
AddCall(len, amp) ==
    /\ cpc = "idle"
    /\ nCalls < MaxAppends
    /\ nCalls' = nCalls + 1
    /\ arg' = Normalize(NewChunk(nCalls + 1, len, amp))
    /\ cpc' = "add_lock"
    /\ UNCHANGED <<fields, wlocals, total_samples, nResets, nStops, resetMark, stopMark, sinceStop,
                   evicted, cleared, drained, tornDrain, addPre, sinceEmpty,
                   heard, emitted, callback_log, runOpen,
                   doubleSeed, atStart>>
    /\ UNCHANGED apart

\* no waiting: the with block is entered whoever holds the lock
LockFree_unchecked == TRUE

\* with self.buffer_lock: the thread waits until the lock is free
LockFree == buffer_lock = "free"

\* the lock is taken, then self.audio_buffer.append(audio_chunk) and
\* total_samples = sum(...) run with the lock held
AddAppend ==
    /\ cpc = "add_lock"
    /\ LockFree
    /\ buffer_lock' = "caller"
    /\ audio_buffer' = Append(audio_buffer, arg)
    /\ total_samples' = Total(audio_buffer')
    /\ addPre' = audio_buffer'
    /\ sinceEmpty' = Append(sinceEmpty, arg)
    /\ cpc' = "add_evict"
    /\ UNCHANGED <<is_speaking, silence_counter, speaking_buffer,
                   vad_buffer, interim_results, final_results, running,
                   has_callback, wlocals, arg, nCalls, nResets, nStops, resetMark,
                   stopMark, sinceStop, evicted, cleared, drained, tornDrain, heard,
                   emitted, callback_log, runOpen, doubleSeed, atStart>>
    /\ UNCHANGED apart

\* the loop test off by one: a buffer one sample over the cap is kept
EvictMore_lax(total) == total > max_buffer_samples + 1

\* the loop test of "while total_samples > self.max_buffer_samples"
EvictMore(total) == total > max_buffer_samples

\* pop() in place of pop(0): the newest chunk goes, not the oldest
AfterPop_newest(buffer) == SubSeq(buffer, 1, Len(buffer) - 1)

\* what self.audio_buffer.pop(0) leaves
AfterPop(buffer) == Tail(buffer)

\* one turn of the loop: removed = self.audio_buffer.pop(0).  pop(0) of an
\* empty list raises IndexError, which leaves the with block and the call.
AddEvict ==
    /\ cpc = "add_evict"
    /\ EvictMore(total_samples)
    /\ IF audio_buffer = <<>>
       THEN /\ buffer_lock' = "free"
            /\ cpc' = "idle"
            /\ UNCHANGED <<audio_buffer, total_samples, evicted>>
       ELSE /\ audio_buffer' = AfterPop(audio_buffer)
            /\ total_samples' = total_samples - Len(Head(audio_buffer))
            /\ evicted' = evicted \cup {ChunkId(Head(audio_buffer))}
            /\ UNCHANGED <<buffer_lock, cpc>>
    /\ UNCHANGED <<is_speaking, silence_counter, speaking_buffer, vad_buffer,
                   interim_results, final_results, running, has_callback,
                   wlocals, arg, nCalls, nResets, nStops, resetMark, stopMark, sinceStop, cleared,
                   drained, tornDrain, addPre, sinceEmpty, heard,
                   emitted, callback_log, runOpen, doubleSeed, atStart>>
    /\ UNCHANGED apart

\* the loop ends, the with block releases the lock and the call returns
AddUnlock ==
    /\ cpc = "add_evict"
    /\ ~EvictMore(total_samples)
    /\ buffer_lock' = "free"
    /\ cpc' = "idle"
    /\ UNCHANGED <<audio_buffer, is_speaking, silence_counter, speaking_buffer,
                   vad_buffer, interim_results, final_results, running,
                   has_callback, wlocals, arg, total_samples, history>>
    /\ UNCHANGED apart

---------------------------------------------------------------------------
(* reset, on the caller's thread *)

\* the call of reset(), the limit-th at most
ResetCallUpTo(limit) ==
    /\ cpc = "idle"
    /\ nResets < limit
    /\ nResets' = nResets + 1
    /\ resetMark' = nCalls
    /\ cpc' = "reset_lock"
    /\ UNCHANGED <<fields, wlocals, arg, total_samples, nCalls, nStops,
                   stopMark, sinceStop, evicted, cleared, drained, tornDrain, addPre,
                   sinceEmpty, heard, emitted, callback_log,
                   runOpen, doubleSeed, atStart>>
    /\ UNCHANGED apart

ResetCall == ResetCallUpTo(MaxResets)

\* with self.buffer_lock: self.audio_buffer = [].  The lock is taken and
\* released in this one step, which needs it free.
ResetBuffer ==
    /\ cpc = "reset_lock"
    /\ LockFree
    /\ audio_buffer' = <<>>
    /\ buffer_lock' = "free"
    /\ cleared' = cleared \cup SeqToSet(ChunkIds(audio_buffer))
    /\ sinceEmpty' = <<>>
    /\ cpc' = "reset_is_speaking"
    /\ UNCHANGED <<is_speaking, silence_counter, speaking_buffer, vad_buffer,
                   interim_results, final_results, running, has_callback,
                   wlocals, arg, total_samples, nCalls, nResets, nStops, resetMark,
                   stopMark, sinceStop, evicted, drained, tornDrain, addPre, heard,
                   emitted, callback_log, runOpen, doubleSeed, atStart>>
    /\ UNCHANGED apart

\* self.is_speaking = False
ResetIsSpeaking ==
    /\ cpc = "reset_is_speaking"
    /\ is_speaking' = FALSE
    /\ runOpen' = FALSE
    /\ cpc' = "reset_silence_counter"
    /\ UNCHANGED <<audio_buffer, buffer_lock, silence_counter, speaking_buffer,
                   vad_buffer, interim_results, final_results, running,
                   has_callback, wlocals, arg, total_samples, nCalls, nResets,
                   nStops, resetMark, stopMark, sinceStop, evicted, cleared,
                   drained, tornDrain, addPre, sinceEmpty, heard, emitted,
                   callback_log, doubleSeed, atStart>>
    /\ UNCHANGED apart

\* self.silence_counter = 0
ResetSilenceCounter ==
    /\ cpc = "reset_silence_counter"
    /\ silence_counter' = 0
    /\ cpc' = "reset_speaking_buffer"
    /\ UNCHANGED <<audio_buffer, buffer_lock, is_speaking, speaking_buffer,
                   vad_buffer, interim_results, final_results, running,
                   has_callback, wlocals, arg, total_samples, history>>
    /\ UNCHANGED apart

\* self.speaking_buffer = []
ResetSpeakingBuffer ==
    /\ cpc = "reset_speaking_buffer"
    /\ speaking_buffer' = <<>>
    /\ cpc' = "reset_interim_results"
    /\ UNCHANGED <<audio_buffer, buffer_lock, is_speaking, silence_counter,
                   vad_buffer, interim_results, final_results, running,
                   has_callback, wlocals, arg, total_samples, history>>
    /\ UNCHANGED apart

\* a reset that empties final_results as well
ResetInterimResults_dropsFinal ==
    /\ cpc = "reset_interim_results"
    /\ interim_results' = <<>>
    /\ final_results' = <<>>
    /\ vad_buffer' = <<>>
    /\ cpc' = "idle"
    /\ UNCHANGED <<audio_buffer, buffer_lock, is_speaking, silence_counter,
                   speaking_buffer, running, has_callback, wlocals, arg,
                   total_samples, history>>
    /\ UNCHANGED apart

\* self.interim_results = []; self.vad_buffer = [], and the call returns.
\* The worker never reads vad_buffer and its one store to it (line 345)
\* stores the same empty list, so the two stores are one step.
ResetInterimResults ==
    /\ cpc = "reset_interim_results"
    /\ interim_results' = <<>>
    /\ vad_buffer' = <<>>
    /\ cpc' = "idle"
    /\ UNCHANGED <<audio_buffer, buffer_lock, is_speaking, silence_counter,
                   speaking_buffer, final_results, running,
                   has_callback, wlocals, arg, total_samples, history>>
    /\ UNCHANGED apart

---------------------------------------------------------------------------
(* stop, on the caller's thread *)

\* self.running = False; if self.processing_thread.is_alive(): join(1.0).
\* The join changes no state and returns when the worker has ended or the
\* second is over, whichever comes first, so the worker may be anywhere when
\* the call returns: the caller is simply idle again.
StopCall ==
    /\ cpc = "idle"
    /\ nStops < MaxStops
    /\ nStops' = nStops + 1
    /\ running' = FALSE
    /\ stopMark' = IF stopMark = -1 THEN nCalls ELSE stopMark
    /\ cpc' = "idle"
    /\ UNCHANGED <<audio_buffer, buffer_lock, is_speaking, silence_counter,
                   speaking_buffer, vad_buffer, interim_results, final_results,
                   has_callback, wlocals, arg, total_samples, nCalls, nResets,
                   sinceStop, resetMark,
                   evicted, cleared, drained, tornDrain, addPre, sinceEmpty,
                   heard, emitted, callback_log, runOpen,
                   doubleSeed, atStart>>
    /\ UNCHANGED apart

---------------------------------------------------------------------------
(* _process_stream, on the worker thread *)

\* while self.running:
WorkerWhile ==
    /\ wpc = "while"
    /\ wpc' = IF running THEN "lock" ELSE "done"
    /\ UNCHANGED <<fields, audio_chunk, i, subchunk, result, silence_seen, clocals, history>>
    /\ UNCHANGED apart

\* with self.buffer_lock: if not self.audio_buffer: the worker takes the
\* lock and goes to sleep inside the with block
WorkerFindEmpty ==
    /\ wpc = "lock"
    /\ LockFree
    /\ audio_buffer = <<>>
    /\ buffer_lock' = "worker"
    /\ wpc' = "sleep_locked"
    /\ UNCHANGED <<audio_buffer, is_speaking, silence_counter, speaking_buffer,
                   vad_buffer, interim_results, final_results, running,
                   has_callback, audio_chunk, i, subchunk, result, silence_seen, clocals,
                   history>>
    /\ UNCHANGED apart

\* the with block is left without releasing the lock
LockAfterSleep_kept == "worker"

\* continue leaves the with block, which releases the lock
LockAfterSleep == "free"

\* time.sleep(0.01); continue: the lock is released only now
WorkerSleepLocked ==
    /\ wpc = "sleep_locked"
    /\ buffer_lock' = LockAfterSleep
    /\ wpc' = "while"
    /\ UNCHANGED <<audio_buffer, is_speaking, silence_counter, speaking_buffer,
                   vad_buffer, interim_results, final_results, running,
                   has_callback, audio_chunk, i, subchunk, result, silence_seen, clocals,
                   history>>
    /\ UNCHANGED apart

\* only the newest chunk is taken
DrainAll_newest(buffer) == buffer[Len(buffer)]

\* audio_chunk = torch.cat(self.audio_buffer)
DrainAll(buffer) == Concat(buffer)

\* with self.buffer_lock: audio_chunk = torch.cat(self.audio_buffer);
\* self.audio_buffer = [].  The lock is taken and released in this one step,
\* which needs it free; the for loop then starts at offset 0.
WorkerDrain ==
    /\ wpc = "lock"
    /\ LockFree
    /\ audio_buffer # <<>>
    /\ audio_chunk' = DrainAll(audio_buffer)
    /\ audio_buffer' = <<>>
    /\ drained' = drained \o ChunkIds(audio_buffer)
    /\ sinceEmpty' = <<>>
    /\ tornDrain' = (tornDrain \/ cpc = "add_evict")
    /\ i' = 0
    /\ wpc' = "for"
    /\ UNCHANGED <<buffer_lock, is_speaking, silence_counter, speaking_buffer,
                   vad_buffer, interim_results, final_results, running,
                   has_callback, subchunk, result, silence_seen, clocals, nCalls, nResets,
                   nStops, resetMark, stopMark, sinceStop, evicted, cleared, addPre, heard, emitted,
                   callback_log, runOpen, doubleSeed, atStart>>
    /\ UNCHANGED apart

\* the test is missing: the block is processed to its end
BreakRequested_never == FALSE

\* if not self.running: break
BreakRequested == ~running

Min(a, b) == IF a < b THEN a ELSE b

\* end_idx one short: the last sample of every slice is left out
SubchunkAt_short(block, offset) ==
    SubSeq(block, offset + 1, Min(offset + chunk_size, Len(block)) - 1)

\* audio_chunk[i:end_idx] with end_idx = min(i + chunk_size, len)
SubchunkAt(block, offset) ==
    SubSeq(block, offset + 1, Min(offset + chunk_size, Len(block)))

\* for i in range(0, len, chunk_size): the next turn, the break, or the end
\* of the block (then time.sleep(0.01) and back to the while test)
WorkerFor ==
    /\ wpc = "for"
    /\ IF i >= Len(audio_chunk) \/ BreakRequested
       THEN /\ wpc' = "while"
            /\ UNCHANGED <<i, subchunk>>
       ELSE /\ subchunk' = SubchunkAt(audio_chunk, i)
            /\ i' = i + chunk_size
            /\ wpc' = "detect"
    /\ UNCHANGED <<fields, audio_chunk, result, silence_seen, clocals, history>>
    /\ UNCHANGED apart

\* the branch "if is_speech:" up to the test of self.is_speaking
SpeechBranch ==
    /\ is_speaking' = TRUE
    /\ wpc' = IF is_speaking THEN "append" ELSE "seed"

\* the branch "else:" up to the test of self.is_speaking (line 297): with no
\* run in progress the sub-chunk is dropped, otherwise line 298 is next
SilenceBranch ==
    /\ wpc' = IF is_speaking THEN "silence_append" ELSE "for"
    /\ UNCHANGED is_speaking

\* is_speech = <the detector's answer>; if is_speech: ... else: ..., up to
\* and including the branch's test of self.is_speaking
Classify(is_speech) ==
    /\ wpc = "detect"
    /\ heard' = Append(heard, subchunk)
    /\ IF is_speech THEN SpeechBranch ELSE SilenceBranch
    /\ sinceStop' =
          IF running THEN sinceStop
          ELSE [sinceStop EXCEPT !.heard = @ + 1]
    /\ UNCHANGED <<audio_buffer, buffer_lock, silence_counter, speaking_buffer,
                   vad_buffer, interim_results, final_results, running,
                   has_callback, audio_chunk, i, subchunk, result, silence_seen,
                   clocals, nCalls, nResets, nStops, resetMark, stopMark,
                   evicted, cleared, drained, tornDrain, addPre, sinceEmpty,
                   emitted, callback_log, runOpen, doubleSeed, atStart>>
    /\ UNCHANGED apart

\* is_speech = self._detect_speech(subchunk); if is_speech: ... else: ...
WorkerDetect == Classify(_detect_speech(subchunk))

\* self.speaking_buffer = [subchunk]; self.silence_counter = 0.  Every store
\* to silence_counter that can run beside this one (reset(), line 442) stores
\* 0 and no other thread reads the counter, so the two statements are one
\* step.
WorkerSeed ==
    /\ wpc = "seed"
    /\ speaking_buffer' = <<subchunk>>
    /\ silence_counter' = 0
    /\ runOpen' = TRUE
    /\ doubleSeed' = (doubleSeed \/ runOpen)
    /\ wpc' = "stab"
    /\ UNCHANGED <<audio_buffer, buffer_lock, is_speaking,
                   vad_buffer, interim_results, final_results, running,
                   has_callback, audio_chunk, i, subchunk, result, silence_seen, clocals,
                   nCalls, nResets, nStops, resetMark, stopMark, sinceStop, evicted, cleared,
                   drained, tornDrain, addPre, sinceEmpty, heard,
                   emitted, callback_log, atStart>>
    /\ UNCHANGED apart

\* self.speaking_buffer.append(subchunk); self.silence_counter = 0, one step
\* for the reason given at WorkerSeed
WorkerAppend ==
    /\ wpc = "append"
    /\ speaking_buffer' = Append(speaking_buffer, subchunk)
    /\ silence_counter' = 0
    /\ wpc' = "stab"
    /\ UNCHANGED <<audio_buffer, buffer_lock, is_speaking,
                   vad_buffer, interim_results, final_results, running,
                   has_callback, audio_chunk, i, subchunk, result, silence_seen, clocals,
                   history>>
    /\ UNCHANGED apart

\* the test off by one: an interim result one sub-chunk late
InterimDue_late(n) == n % stabilization_frames = 1

\* len(self.speaking_buffer) % self.stabilization_frames == 0
InterimDue(n) == n % stabilization_frames = 0

WorkerStab ==
    /\ wpc = "stab"
    /\ wpc' = IF InterimDue(Len(speaking_buffer)) THEN "interim" ELSE "for"
    /\ UNCHANGED <<fields, audio_chunk, i, subchunk, result, silence_seen, clocals, history>>
    /\ UNCHANGED apart

\* _perform_interim_recognition: torch.cat(self.speaking_buffer), which
\* raises on an empty list and ends the thread, then _recognize_audio
WorkerInterim ==
    /\ wpc = "interim"
    /\ IF speaking_buffer = <<>>
       THEN /\ wpc' = "crashed"
            /\ UNCHANGED result
       ELSE /\ result' = MakeResult(Concat(speaking_buffer), FALSE)
            /\ wpc' = "interim_append"
    /\ UNCHANGED <<fields, audio_chunk, i, subchunk, silence_seen, clocals, history>>
    /\ UNCHANGED apart

\* the callback is never called
AfterInterimAppend_skipped == "for"

\* if self.callback: after the append
AfterInterimAppend == IF has_callback THEN "interim_callback" ELSE "for"

\* self.interim_results.append(result)
WorkerInterimAppend ==
    /\ wpc = "interim_append"
    /\ interim_results' = Append(interim_results, result)
    /\ emitted' = Append(emitted, result)
    /\ sinceStop' =
          IF running THEN sinceStop
          ELSE [sinceStop EXCEPT !.emitted = @ + 1]
    /\ wpc' = AfterInterimAppend
    /\ UNCHANGED <<audio_buffer, buffer_lock, is_speaking, silence_counter,
                   speaking_buffer, vad_buffer, final_results, running,
                   has_callback, audio_chunk, i, subchunk, result, silence_seen, clocals,
                   nCalls, nResets, nStops, resetMark, stopMark, evicted, cleared,
                   drained, tornDrain, addPre, sinceEmpty, heard,
                   callback_log, runOpen, doubleSeed, atStart>>
    /\ UNCHANGED apart

\* self.callback(result)
WorkerInterimCallback ==
    /\ wpc = "interim_callback"
    /\ callback_log' = Append(callback_log, result)
    /\ wpc' = "for"
    /\ UNCHANGED <<fields, audio_chunk, i, subchunk, result, silence_seen, clocals, nCalls,
                   nResets, nStops, resetMark, stopMark, sinceStop, evicted, cleared, drained,
                   tornDrain, addPre, sinceEmpty, heard, emitted,
                   runOpen, doubleSeed, atStart>>
    /\ UNCHANGED apart

---------------------------------------------------------------------------
(* The branch "else:" of the loop (lines 295-303) and _finalize_speech_segment
   (lines 308-345).  The worker holds no lock here, so every statement that
   reads or writes a field is a step of its own and reset() can run between
   any two of them.  With "return True" as the first statement of
   _detect_speech the worker never gets here, so none of these steps is a
   disjunct of Worker. *)

\* self.speaking_buffer.append(subchunk), line 298
WorkerSilenceAppend ==
    /\ wpc = "silence_append"
    /\ speaking_buffer' = Append(speaking_buffer, subchunk)
    /\ wpc' = "silence_load"
    /\ UNCHANGED <<audio_buffer, buffer_lock, is_speaking, silence_counter,
                   vad_buffer, interim_results, final_results, running,
                   has_callback, audio_chunk, i, subchunk, result, silence_seen,
                   clocals, history>>
    /\ UNCHANGED apart

\* self.silence_counter += subchunk.shape[0], line 299: the load
WorkerSilenceLoad ==
    /\ wpc = "silence_load"
    /\ silence_seen' = silence_counter
    /\ wpc' = "silence_store"
    /\ UNCHANGED <<fields, audio_chunk, i, subchunk, result, clocals, history>>
    /\ UNCHANGED apart

\* self.silence_counter += subchunk.shape[0], line 299: the store
WorkerSilenceStore ==
    /\ wpc = "silence_store"
    /\ silence_counter' = silence_seen + Len(subchunk)
    /\ wpc' = "silence_test"
    /\ UNCHANGED <<audio_buffer, buffer_lock, is_speaking, speaking_buffer,
                   vad_buffer, interim_results, final_results, running,
                   has_callback, audio_chunk, i, subchunk, result, silence_seen,
                   clocals, history>>
    /\ UNCHANGED apart

\* if self.silence_counter >= self.min_silence_samples:
\*     self._finalize_speech_segment()
WorkerSilenceTest ==
    /\ wpc = "silence_test"
    /\ wpc' = IF silence_counter >= min_silence_samples THEN "finalize" ELSE "for"
    /\ UNCHANGED <<fields, audio_chunk, i, subchunk, result, silence_seen,
                   clocals, history>>
    /\ UNCHANGED apart

\* speech_segment = torch.cat(self.speaking_buffer), which raises on an
\* empty list and ends the thread; then _recognize_audio and the result
\* record (lines 313-330)
WorkerFinalize ==
    /\ wpc = "finalize"
    /\ IF speaking_buffer = <<>>
       THEN /\ wpc' = "crashed"
            /\ UNCHANGED result
       ELSE /\ result' = MakeResult(Concat(speaking_buffer), TRUE)
            /\ wpc' = "final_append"
    /\ UNCHANGED <<fields, audio_chunk, i, subchunk, silence_seen, clocals,
                   history>>
    /\ UNCHANGED apart

\* self.final_results.append(result); if self.callback:
WorkerFinalAppend ==
    /\ wpc = "final_append"
    /\ final_results' = Append(final_results, result)
    /\ emitted' = Append(emitted, result)
    /\ sinceStop' =
          IF running THEN sinceStop
          ELSE [sinceStop EXCEPT !.emitted = @ + 1]
    /\ wpc' = IF has_callback THEN "final_callback" ELSE "final_is_speaking"
    /\ UNCHANGED <<audio_buffer, buffer_lock, is_speaking, silence_counter,
                   speaking_buffer, vad_buffer, interim_results, running,
                   has_callback, audio_chunk, i, subchunk, result, silence_seen,
                   clocals, nCalls, nResets, nStops, resetMark, stopMark,
                   evicted, cleared, drained, tornDrain, addPre, sinceEmpty,
                   heard, callback_log, runOpen, doubleSeed, atStart>>
    /\ UNCHANGED apart

\* self.callback(result), line 337: the run is still open and buffered
WorkerFinalCallback ==
    /\ wpc = "final_callback"
    /\ callback_log' = Append(callback_log, result)
    /\ wpc' = "final_is_speaking"
    /\ UNCHANGED <<fields, audio_chunk, i, subchunk, result, silence_seen,
                   clocals, nCalls, nResets, nStops, resetMark, stopMark,
                   sinceStop, evicted, cleared, drained, tornDrain, addPre,
                   sinceEmpty, heard, emitted, runOpen, doubleSeed, atStart>>
    /\ UNCHANGED apart

\* self.is_speaking = False, line 340
WorkerFinalIsSpeaking ==
    /\ wpc = "final_is_speaking"
    /\ is_speaking' = FALSE
    /\ runOpen' = FALSE
    /\ wpc' = "final_silence_counter"
    /\ UNCHANGED <<audio_buffer, buffer_lock, silence_counter, speaking_buffer,
                   vad_buffer, interim_results, final_results, running,
                   has_callback, audio_chunk, i, subchunk, result, silence_seen,
                   clocals, nCalls, nResets, nStops, resetMark, stopMark,
                   sinceStop, evicted, cleared, drained, tornDrain, addPre,
                   sinceEmpty, heard, emitted, callback_log, doubleSeed,
                   atStart>>
    /\ UNCHANGED apart

\* self.silence_counter = 0, line 341
WorkerFinalSilenceCounter ==
    /\ wpc = "final_silence_counter"
    /\ silence_counter' = 0
    /\ wpc' = "final_speaking_buffer"
    /\ UNCHANGED <<audio_buffer, buffer_lock, is_speaking, speaking_buffer,
                   vad_buffer, interim_results, final_results, running,
                   has_callback, audio_chunk, i, subchunk, result, silence_seen,
                   clocals, history>>
    /\ UNCHANGED apart

\* self.speaking_buffer = [], line 342
WorkerFinalSpeakingBuffer ==
    /\ wpc = "final_speaking_buffer"
    /\ speaking_buffer' = <<>>
    /\ wpc' = "final_vad_buffer"
    /\ UNCHANGED <<audio_buffer, buffer_lock, is_speaking, silence_counter,
                   vad_buffer, interim_results, final_results, running,
                   has_callback, audio_chunk, i, subchunk, result, silence_seen,
                   clocals, history>>
    /\ UNCHANGED apart

\* self.vad_buffer = [], line 345, and the call returns to the loop
WorkerFinalVadBuffer ==
    /\ wpc = "final_vad_buffer"
    /\ vad_buffer' = <<>>
    /\ wpc' = "for"
    /\ UNCHANGED <<audio_buffer, buffer_lock, is_speaking, silence_counter,
                   speaking_buffer, interim_results, final_results, running,
                   has_callback, audio_chunk, i, subchunk, result, silence_seen,
                   clocals, history>>
    /\ UNCHANGED apart

\* _finalize_speech_segment, statement by statement
_finalize_speech_segment ==
    \/ WorkerFinalize
    \/ WorkerFinalAppend
    \/ WorkerFinalCallback
    \/ WorkerFinalIsSpeaking
    \/ WorkerFinalSilenceCounter
    \/ WorkerFinalSpeakingBuffer
    \/ WorkerFinalVadBuffer

\* the worker's positions inside lines 298-303 and _finalize_speech_segment
SilencePositions ==
    {"silence_append", "silence_load", "silence_store", "silence_test",
     "finalize", "final_append", "final_callback", "final_is_speaking",
     "final_silence_counter", "final_speaking_buffer", "final_vad_buffer"}

---------------------------------------------------------------------------
(* The two threads *)

Caller ==
    \/ \E len \in 1..MaxChunkLen, amp \in 0..MaxAmp : AddCall(len, amp)
    \/ AddAppend
    \/ AddEvict
    \/ AddUnlock
    \/ ResetCall
    \/ ResetBuffer
    \/ ResetIsSpeaking
    \/ ResetSilenceCounter
    \/ ResetSpeakingBuffer
    \/ ResetInterimResults
    \/ StopCall

Worker ==
    \/ WorkerWhile
    \/ WorkerFindEmpty
    \/ WorkerSleepLocked
    \/ WorkerDrain
    \/ WorkerFor
    \/ WorkerDetect
    \/ WorkerSeed
    \/ WorkerAppend
    \/ WorkerStab
    \/ WorkerInterim
    \/ WorkerInterimAppend
    \/ WorkerInterimCallback

Next == Caller \/ Worker

Spec == Init /\ [][Next]_vars

---------------------------------------------------------------------------
(* reset() alone, called ResetRuns times in a row from any session state *)

AnySubchunks == {<<>>, <<NewChunk(1, 2, 1)>>, <<NewChunk(1, 2, 1), NewChunk(1, 1, 0)>>}
AnyInterim == {<<>>, <<MakeResult(NewChunk(1, 2, 1), FALSE)>>}
AnyFinal ==
    {<<>>, <<MakeResult(NewChunk(1, 2, 1), TRUE)>>,
     <<MakeResult(NewChunk(1, 2, 1), TRUE), MakeResult(NewChunk(2, 1, 0), TRUE)>>}

InitAnySession ==
    /\ audio_buffer \in
         {<<>>, <<NewChunk(3, 2, 1)>>, <<NewChunk(3, 1, 0), NewChunk(4, 2, 1)>>}
    /\ buffer_lock = "free"
    /\ is_speaking \in BOOLEAN
    /\ silence_counter \in {0, 1}
    /\ speaking_buffer \in AnySubchunks
    /\ vad_buffer \in AnySubchunks
    /\ interim_results \in AnyInterim
    /\ final_results \in AnyFinal
    /\ running \in BOOLEAN
    /\ has_callback \in BOOLEAN
    /\ wpc = "while"
    /\ audio_chunk = <<>>
    /\ i = 0
    /\ subchunk = <<>>
    /\ result = MakeResult(<<>>, FALSE)
    /\ silence_seen = 0
    /\ cpc = "idle"
    /\ arg = <<>>
    /\ total_samples = 0
    /\ nCalls = 4
    /\ nResets = 0
    /\ resetMark = -1
    /\ nStops = 0
    /\ stopMark = -1
    /\ sinceStop = [heard |-> 0, emitted |-> 0]
    /\ evicted = {}
    /\ cleared = {}
    /\ drained = <<>>
    /\ tornDrain = FALSE
    /\ addPre = <<>>
    /\ sinceEmpty = audio_buffer
    /\ heard = <<>>
    /\ emitted = <<>>
    /\ callback_log = <<>>
    /\ runOpen = is_speaking
    /\ doubleSeed = FALSE
    /\ atStart = Snapshot
    /\ NoVadCall(Built(TRUE, TRUE, FALSE, FALSE))
    /\ NoSegmentAudio

ResetAgain == ResetCallUpTo(ResetRuns)

NextReset ==
    \/ ResetAgain
    \/ ResetBuffer
    \/ ResetIsSpeaking
    \/ ResetSilenceCounter
    \/ ResetSpeakingBuffer
    \/ ResetInterimResults

SpecReset == InitAnySession /\ [][NextReset]_vars

---------------------------------------------------------------------------
(* segment_audio (vad_utils.py), called on its own on a complete audio.    *)
(* Times are counted in ticks of 1/TicksPerSec second.                     *)

TicksPerSec == 2

\* segments in the timeline the pipeline returns, at most
MaxSegs == 3
\* length of the audio, in seconds
WavSec == 4

\* the arguments max_duration, min_duration and new_chunk_threshold, in ticks
\* (3.0, 1.5 and 1.0 seconds), and sample_rate
max_duration == 6
min_duration == 3
new_chunk_threshold == 2
wav_sample_rate == 16000

Max(a, b) == IF a > b THEN a ELSE b

\* len(audio) / 1000: the length of the audio in seconds, here in ticks
AudioEnd(ms) == (ms * TicksPerSec) \div 1000

\* int(t * 1000) for a time t >= 0
ToMs(t) == (t * 1000) \div TicksPerSec

\* audiosegment_to_tensor(audio[start_ms:end_ms]).shape[-1]: a slice is
\* clamped to the audio, and holds sample_rate / 1000 samples a millisecond
TensorLen(start_ms, end_ms, ms) ==
    (Max(0, Min(end_ms, ms) - Min(start_ms, ms)) * wav_sample_rate) \div 1000

SegOf(a, b) == [start |-> a, end |-> b]

\* what sad_segments.get_timeline().support() can be for an audio that ends
\* at tick last: at most n segments from tick lo on, each at least a tick
\* long, in time order, with a gap between one and the next; the last may
\* end a tick after the audio
RECURSIVE Supports(_, _, _)
Supports(lo, n, last) ==
    IF n = 0 THEN {<<>>}
    ELSE {<<>>} \cup
         UNION {UNION {{<<SegOf(a, b)>> \o rest :
                           rest \in Supports(b + 1, n - 1, last)} :
                       b \in (a + 1)..(last + 1)} :
                a \in lo..(last - 1)}

\* segment_audio is called on an audio too short or long enough, where the
\* pipeline is available or not
InitSeg ==
    /\ InitStream
    /\ NoVadCall(Built(TRUE, TRUE, FALSE, FALSE))
    /\ wav_ms \in {500, WavSec * 1000}
    /\ pipeline_ok \in BOOLEAN
    /\ sad_segments \in
         IF wav_ms >= 1000 /\ pipeline_ok
         THEN Supports(0, MaxSegs, AudioEnd(wav_ms))
         ELSE {<<>>}
    /\ spc = "start"
    /\ seg_i = 0
    /\ curr_start = 0
    /\ curr_end = 0
    /\ curr_duration = 0
    /\ segments = <<>>
    /\ boundaries = <<>>

\* if len(audio) < 1000: raise ValueError; get_pipeline raises when HF_TOKEN
\* is not set; else the locals of the loop are set up
SegStart ==
    /\ spc = "start"
    /\ spc' = IF wav_ms < 1000 \/ ~pipeline_ok THEN "raised" ELSE "loop"
    /\ seg_i' = 1
    /\ curr_start' = 0
    /\ curr_end' = 0
    /\ curr_duration' = 0
    /\ segments' = <<>>
    /\ boundaries' = <<>>
    /\ UNCHANGED <<fields, wlocals, clocals, history, vadvars, wav_ms,
                   pipeline_ok, sad_segments>>

\* a new chunk as soon as the accumulated duration exceeds min_duration
StartsNewChunk_anyGap(dur, start, end, cend) ==
    \/ dur > min_duration
    \/ dur + (end - cend) > max_duration

\* the test that starts a new output chunk
StartsNewChunk(dur, start, end, cend) ==
    \/ dur > min_duration /\ start - cend > new_chunk_threshold
    \/ dur + (end - cend) > max_duration

\* if curr_end > curr_start: cut the slice; if tensor.shape[-1] > 0: keep it
Kept(cs, ce) ==
    /\ ce > cs
    /\ TensorLen(ToMs(cs), ToMs(ce), wav_ms) > 0

\* one turn of "for segment in sad_segments.get_timeline().support()"
SegIter ==
    /\ spc = "loop"
    /\ seg_i <= Len(sad_segments)
    /\ LET segment == sad_segments[seg_i]
           start == Max(0, segment.start)
           end == Min(AudioEnd(wav_ms), segment.end)
           new == StartsNewChunk(curr_duration, start, end, curr_end)
       IN /\ segments' =
                IF new /\ Kept(curr_start, curr_end)
                THEN Append(segments, <<ToMs(curr_start), ToMs(curr_end)>>)
                ELSE segments
          /\ boundaries' =
                IF new /\ Kept(curr_start, curr_end)
                THEN Append(boundaries, <<curr_start, curr_end>>)
                ELSE boundaries
          /\ curr_start' = IF new THEN start ELSE curr_start
          /\ curr_end' = end
          /\ curr_duration' = curr_end' - curr_start'
    /\ seg_i' = seg_i + 1
    /\ UNCHANGED <<fields, wlocals, clocals, history, vadvars, wav_ms,
                   pipeline_ok, sad_segments, spc>>

\* after the loop: the last chunk, and the return
SegLast ==
    /\ spc = "loop"
    /\ seg_i > Len(sad_segments)
    /\ LET keep == curr_duration # 0 /\ Kept(curr_start, curr_end)
       IN /\ segments' =
                IF keep
                THEN Append(segments, <<ToMs(curr_start), ToMs(curr_end)>>)
                ELSE segments
          /\ boundaries' =
                IF keep THEN Append(boundaries, <<curr_start, curr_end>>)
                ELSE boundaries
    /\ spc' = "returned"
    /\ UNCHANGED <<fields, wlocals, clocals, history, vadvars, wav_ms,
                   pipeline_ok, sad_segments, seg_i, curr_start, curr_end,
                   curr_duration>>

NextSeg ==
    \/ SegStart
    \/ SegIter
    \/ SegLast

SpecSeg == InitSeg /\ [][NextSeg]_vars

---------------------------------------------------------------------------
(* _detect_speech_vad, called on its own, one sub-chunk after another, on a *)
(* session built in any circumstances.  Times are counted in ticks.         *)

\* _detect_speech_vad calls in one behaviour
MaxVadCalls == 6

\* vad_threshold (0.5) and the default score of a segment (1.0), in tenths
vad_threshold == 5
default_score == 10

\* self.vad_buffer_size = 3 * sample_rate
vad_buffer_size == 3 * sample_rate

\* a Python bool as the value a call returns; "raised" stands for an
\* exception leaving the call
ToRet(b) == IF b THEN "True" ELSE "False"

\* the circumstances __init__ can meet
Builds ==
    {Built(w, a, t, l) : w \in BOOLEAN, a \in BOOLEAN, t \in BOOLEAN,
                         l \in BOOLEAN}

InitVad ==
    /\ InitStream
    /\ \E b \in Builds : NoVadCall(b)
    /\ NoSegmentAudio

\* the sub-chunks a call may be given
VadInputs(id) ==
    {NewChunk(id, len, amp) : len \in 1..chunk_size, amp \in 0..1}

\* what the try block meets: an exception (conversion, export or pipeline),
\* or the support of the timeline the pipeline returns: nothing, a segment
\* ending early or late in the window, with or without a score below
\* vad_threshold
OracleAnswers ==
    {[ok |-> FALSE, timeline |-> <<>>]} \cup
    {[ok |-> TRUE, timeline |-> t] :
        t \in {<<>>,
               <<SegOf(0, 4)>>,
               <<SegOf(3, 6)>>,
               <<[start |-> 3, end |-> 6, score |-> 3]>>,
               <<SegOf(0, 2), SegOf(3, 6)>>}}

\* segment.end > (vad_audio.shape[0] / self.sample_rate - 0.5)
InLastPart(segment, n) ==
    2 * segment.end * sample_rate >
        2 * TicksPerSec * n - TicksPerSec * sample_rate

\* getattr(segment, 'score', 1.0)
SpeechProba(segment) ==
    IF "score" \in DOMAIN segment THEN segment.score ELSE default_score

\* the loop over the segments: the first one in the last part decides
RECURSIVE HasSpeech(_, _)
HasSpeech(timeline, n) ==
    IF timeline = <<>> THEN FALSE
    ELSE IF InLastPart(Head(timeline), n)
         THEN SpeechProba(Head(timeline)) > vad_threshold
         ELSE HasSpeech(Tail(timeline), n)

\* the exception leaves the call
OnOracleFailure_raises(audio) == "raised"

\* except Exception: return self._detect_speech_energy(audio)
OnOracleFailure(audio) == ToRet(_detect_speech_energy(audio))

\* vad_audio[-self.vad_buffer_size:]
LastSamples(audio, n) == SubSeq(audio, Len(audio) - n + 1, Len(audio))

\* one call of _detect_speech_vad
_detect_speech_vad(audio, oracle) ==
    /\ nVadCalls < MaxVadCalls
    /\ nVadCalls' = nVadCalls + 1
    /\ vad_in' = audio
    /\ IF ~use_vad
       THEN /\ vad_ret' = ToRet(_detect_speech_energy(audio))
            /\ vad_oracle' = "unused"
            /\ UNCHANGED vad_buffer
       ELSE LET appended == Append(vad_buffer, audio)
                all == Concat(appended)
                vad_audio == IF Len(all) > vad_buffer_size
                             THEN LastSamples(all, vad_buffer_size)
                             ELSE all
            IN IF Total(appended) < vad_buffer_size
               THEN /\ vad_buffer' = appended
                    /\ vad_ret' = ToRet(FALSE)
                    /\ vad_oracle' = "unused"
               ELSE /\ vad_buffer' = IF Len(all) > vad_buffer_size
                                     THEN <<vad_audio>>
                                     ELSE appended
                    /\ IF oracle.ok
                       THEN /\ vad_ret' =
                                  ToRet(HasSpeech(oracle.timeline,
                                                  Len(vad_audio)))
                            /\ vad_oracle' = "answered"
                       ELSE /\ vad_ret' = OnOracleFailure(audio)
                            /\ vad_oracle' = "failed"
    /\ UNCHANGED <<audio_buffer, buffer_lock, is_speaking, silence_counter,
                   speaking_buffer, interim_results, final_results, running,
                   has_callback, wlocals, clocals, history, use_vad, built,
                   segvars>>

NextVad ==
    \E audio \in VadInputs(nVadCalls + 1), oracle \in OracleAnswers :
        _detect_speech_vad(audio, oracle)

SpecVad == InitVad /\ [][NextVad]_vars

---------------------------------------------------------------------------
(* The session under fair scheduling.  The amplitude of a chunk decides     *)
(* nothing in the two threads (_detect_speech returns True whatever it is   *)
(* given), so the chunks are all of amplitude 1 here.                       *)

\* add_audio_chunk calls in one behaviour under fair scheduling
LiveAppends == 2

CallerOfLoudChunks ==
    \/ \E len \in 1..MaxChunkLen : nCalls < LiveAppends /\ AddCall(len, 1)
    \/ AddAppend
    \/ AddEvict
    \/ AddUnlock
    \/ ResetCall
    \/ ResetBuffer
    \/ ResetIsSpeaking
    \/ ResetSilenceCounter
    \/ ResetSpeakingBuffer
    \/ ResetInterimResults
    \/ StopCall

NextLive == CallerOfLoudChunks \/ Worker

\* A thread that can take its next step for good takes it in the end.  This
\* is all the scheduler gives: threading.Lock keeps no queue, so a thread
\* blocked in buffer_lock.acquire() is enabled only while the lock is free,
\* and the worker, which takes the lock again right after releasing it
\* (lines 250-254), may get there first every time.  Nothing obliges the
\* caller to start an operation.
Fairness ==
    /\ WF_vars(Worker)
    /\ WF_vars(AddAppend)
    /\ WF_vars(AddEvict \/ AddUnlock)
    /\ WF_vars(ResetBuffer)
    /\ WF_vars(ResetIsSpeaking \/ ResetSilenceCounter \/ ResetSpeakingBuffer
               \/ ResetInterimResults)

SpecLive == Init /\ [][NextLive]_vars /\ Fairness

---------------------------------------------------------------------------
(* Properties *)

IsSuffix(s, t) ==
    /\ Len(s) <= Len(t)
    /\ s = SubSeq(t, Len(t) - Len(s) + 1, Len(t))

IsPrefix(s, t) ==
    /\ Len(s) <= Len(t)
    /\ s = SubSeq(t, 1, Len(s))

\* the longest suffix of a list of chunks whose samples number at most cap
LongestFittingSuffix(chunks, cap) ==
    LET fits == {j \in 1..(Len(chunks) + 1) :
                    Total(SubSeq(chunks, j, Len(chunks))) <= cap}
        first == CHOOSE j \in fits : \A k \in fits : j <= k
    IN SubSeq(chunks, first, Len(chunks))

Increasing(s) == \A j, k \in 1..Len(s) : j < k => s[j] < s[k]

\* the step that ends an add_audio_chunk call
AddReturns == cpc = "add_evict" /\ cpc' = "idle"

\* the step in which the worker drains the buffer
DrainStep == wpc = "lock" /\ wpc' = "for"

\* the numbers of the chunks appended so far
AppendedIds == IF cpc = "add_lock" THEN 1..(nCalls - 1) ELSE 1..nCalls

BufferedIds == SeqToSet(ChunkIds(audio_buffer))
DrainedIds == SeqToSet(drained)

\* C1: whenever buffer_lock is free (no append is under way), audio_buffer
\* holds at most max_buffer_samples samples, whatever the chunk sizes and the
\* interleaving with drains and resets.
C1_BufferWithinCap ==
    buffer_lock = "free" => Total(audio_buffer) <= max_buffer_samples

\* an append that evicted has returned and left the buffer filled to the cap
C1_Witness ==
    /\ buffer_lock = "free"
    /\ cpc = "idle"
    /\ evicted # {}
    /\ Total(audio_buffer) = max_buffer_samples

\* C2: when add_audio_chunk returns, the buffer is the longest suffix of (the
\* buffer before the call followed by the new chunk) that fits the cap, so a
\* chunk longer than the cap leaves it empty; during the eviction the buffer
\* is always a suffix of that list: whole chunks, in order, go from the front.
C2_EvictsOldestWholeChunks ==
    /\ [][AddReturns =>
            /\ audio_buffer' = LongestFittingSuffix(addPre, max_buffer_samples)
            /\ (Len(arg) > max_buffer_samples => audio_buffer' = <<>>)]_vars
    /\ [](cpc = "add_evict" => IsSuffix(audio_buffer, addPre))

\* an append is about to return after having evicted some chunks and kept two
C2_Witness ==
    /\ cpc = "add_evict"
    /\ total_samples <= max_buffer_samples
    /\ Len(audio_buffer) >= 2
    /\ Len(audio_buffer) < Len(addPre)

\* C3 as stated: a drain after N appends totalling S samples, with no drain
\* (or reset) between them, yields the block of length S that concatenates
\* them in append order, and leaves the buffer empty.
C3_DrainYieldsAllAppended ==
    [][DrainStep =>
        /\ audio_chunk' = Concat(sinceEmpty)
        /\ Len(audio_chunk') = Total(sinceEmpty)
        /\ audio_buffer' = <<>>]_vars

\* C3 amended: the drain yields, in append order, the chunks the cap has not
\* evicted, that is the longest suffix of those N chunks that fits
\* max_buffer_samples, which is all S samples when S <= max_buffer_samples;
\* and it leaves the buffer empty.
C3_DrainYieldsFittingSuffix ==
    [][DrainStep =>
        /\ audio_chunk' =
              Concat(LongestFittingSuffix(sinceEmpty, max_buffer_samples))
        /\ (Total(sinceEmpty) <= max_buffer_samples =>
              /\ audio_chunk' = Concat(sinceEmpty)
              /\ Len(audio_chunk') = Total(sinceEmpty))
        /\ audio_buffer' = <<>>]_vars

\* the first drain took two chunks after a third had been evicted
C3_Witness ==
    /\ wpc = "for"
    /\ i = 0
    /\ nResets = 0
    /\ Len(drained) = 2
    /\ evicted # {}
    /\ Cardinality(IdsOf(audio_chunk)) = 2

\* C4: no drain falls between an append and its eviction; every appended
\* chunk is in exactly one of: buffered, evicted, cleared by reset, drained;
\* no chunk is drained twice and chunks are drained (and buffered) in append
\* order.
C4_AppendAndDrainAtomic ==
    /\ ~tornDrain
    /\ BufferedIds \cup evicted \cup cleared \cup DrainedIds = AppendedIds
    /\ BufferedIds \cap evicted = {}
    /\ BufferedIds \cap cleared = {}
    /\ BufferedIds \cap DrainedIds = {}
    /\ evicted \cap cleared = {}
    /\ evicted \cap DrainedIds = {}
    /\ cleared \cap DrainedIds = {}
    /\ Increasing(drained)
    /\ Increasing(ChunkIds(audio_buffer))

\* the worker waits for the lock while an append still has chunks to evict,
\* after an earlier drain
C4_Witness ==
    /\ cpc = "add_evict"
    /\ EvictMore(total_samples)
    /\ wpc = "lock"
    /\ drained # <<>>

\* the worker is between two sub-chunks: every sub-chunk in heard has been
\* processed to the end
WorkerBetween ==
    wpc \in {"while", "lock", "sleep_locked", "for", "detect", "done"}

\* ceil(min_silence_samples / chunk_size) + 1
SilenceRun == (min_silence_samples + chunk_size - 1) \div chunk_size + 1

\* the sub-chunks heard so far: K full-size ones with speech energy, then
\* SilenceRun full-size ones without
SpeechThenSilence(K) ==
    /\ Len(heard) = K + SilenceRun
    /\ \A k \in 1..Len(heard) :
          /\ Len(heard[k]) = chunk_size
          /\ _detect_speech_energy(heard[k]) <=> (k <= K)

AllSpeech == \A k \in 1..Len(heard) : _detect_speech_energy(heard[k])

\* C5: from Idle, once the worker has processed K >= 1 sub-chunks of speech
\* followed by ceil(min_silence_samples / chunk_size) + 1 sub-chunks of
\* silence, exactly one final result has been emitted and the session is
\* Idle again.
C5_OneFinalAfterSilence ==
    \A K \in 1..Len(heard) :
        (nResets = 0 /\ WorkerBetween /\ SpeechThenSilence(K)) =>
            /\ Len(final_results) = 1
            /\ final_results[1].is_final
            /\ ~is_speaking

\* C6: from Idle, once the worker has processed stabilization_frames * n
\* sub-chunks (n >= 1), all of them speech, exactly n interim results have
\* been emitted, the j-th over the first stabilization_frames * j sub-chunks,
\* no final result has been emitted and the session is Speaking.
C6_InterimEveryStabilizationFrames ==
    \A n \in 1..Len(heard) :
        (/\ nResets = 0
         /\ WorkerBetween
         /\ AllSpeech
         /\ Len(heard) = stabilization_frames * n) =>
            /\ Len(emitted) = n
            /\ \A j \in 1..Len(emitted) :
                  emitted[j] =
                    MakeResult(
                      Concat(SubSeq(heard, 1, stabilization_frames * j)),
                      FALSE)
            /\ interim_results = emitted
            /\ final_results = <<>>
            /\ is_speaking

\* two rounds of stabilization_frames speech sub-chunks have been processed
C6_Witness ==
    /\ nResets = 0
    /\ WorkerBetween
    /\ AllSpeech
    /\ Len(heard) = stabilization_frames * 2
    /\ Len(emitted) = 2

\* C7: between operations (no reset under way, the worker between two
\* sub-chunks) run state exists only while is_speaking is true, and no run
\* was ever seeded while another was open, with neither a finalize nor a
\* reset since that one was seeded.
C7_OneRunAtATime ==
    /\ (cpc = "idle" /\ WorkerBetween) =>
          ((speaking_buffer # <<>> \/ silence_counter > 0) => is_speaking)
    /\ ~doubleSeed

\* what reset() leaves of the session it was called on
AfterReset(session) ==
    [session EXCEPT !.audio_buffer = <<>>, !.is_speaking = FALSE,
                    !.silence_counter = 0, !.speaking_buffer = <<>>,
                    !.vad_buffer = <<>>, !.interim_results = <<>>]

\* C8: after one reset() and after any further reset() in a row, the session
\* is the same: the buffers and interim_results empty, is_speaking false,
\* silence_counter 0, and final_results (like running and the callback) as
\* they were before the first call.
C8_ResetIdempotent ==
    (cpc = "idle" /\ nResets >= 1) =>
        /\ Snapshot = AfterReset(atStart)
        /\ buffer_lock = "free"

\* a second reset() in a row has returned, on a session that had audio, a
\* run, interim and final results before the first
C8_Witness ==
    /\ cpc = "idle"
    /\ nResets = 2
    /\ atStart.audio_buffer # <<>>
    /\ atStart.is_speaking
    /\ atStart.speaking_buffer # <<>>
    /\ atStart.interim_results # <<>>
    /\ Len(final_results) = 2

\* the chunk numbers in a list of pieces of audio
RECURSIVE IdsIn(_)
IdsIn(pieces) ==
    IF pieces = <<>> THEN {} ELSE IdsOf(Head(pieces)) \cup IdsIn(Tail(pieces))

\* C9: once stop() has cleared running, add_audio_chunk still appends under
\* the cap and whoever holds the lock is about to release it, but no sample
\* of a chunk passed after stop() is classified, enters the speech run or
\* any result.
C9_NothingProcessedAfterStop ==
    stopMark >= 0 =>
        /\ IdsIn(heard) \subseteq 1..stopMark
        /\ IdsIn(speaking_buffer) \subseteq 1..stopMark
        /\ \A k \in 1..Len(emitted) : IdsOf(emitted[k].text) \subseteq 1..stopMark
        /\ buffer_lock = "free" => Total(audio_buffer) <= max_buffer_samples
        /\ buffer_lock = "worker" => wpc = "sleep_locked"
        /\ buffer_lock = "caller" => cpc = "add_evict"

\* a chunk appended after stop() was even drained by the worker, and the
\* call that appended the next one has returned
C9_Witness ==
    /\ stopMark >= 0
    /\ cpc = "idle"
    /\ \E k \in 1..Len(drained) : drained[k] > stopMark
    /\ \E id \in BufferedIds : id > stopMark

\* C10: with a callback, its arguments are the results emitted, in emission
\* order, each passed once; they lag the emitted results only while the worker
\* stands between the append of a result and its callback, which is before
\* it takes the next sub-chunk.  Without a callback nothing is called.
C10_CallbackPerResult ==
    /\ has_callback =>
          IF wpc \in {"interim_callback", "final_callback"}
          THEN /\ emitted = Append(callback_log, result)
               /\ emitted # <<>>
          ELSE callback_log = emitted
    /\ ~has_callback => callback_log = <<>>

\* the callback has been called with two results in a row
C10_Witness ==
    /\ has_callback
    /\ Len(callback_log) = 2
    /\ callback_log[1] # callback_log[2]
    /\ wpc = "for"

\* a step of an operation on the caller's thread
CallerStep ==
    <<cpc, total_samples, nCalls, nResets, nStops>>' #
        <<cpc, total_samples, nCalls, nResets, nStops>>

\* C11: no step of add_audio_chunk, reset or stop (get_final_results and
\* get_interim_results only return a list) changes is_speaking,
\* silence_counter, speaking_buffer, vad_buffer, interim_results or
\* final_results: these are written by the worker's steps only.
C11_OnlyWorkerWritesSessionState ==
    [][CallerStep =>
          UNCHANGED <<is_speaking, silence_counter, speaking_buffer,
                      vad_buffer, interim_results, final_results>>]_vars

\* C12: the worker never stands inside the silence branch (lines 298-303)
\* or inside _finalize_speech_segment, final_results is always empty and
\* silence_counter always 0, and is_speaking goes from true to false in a
\* step of reset() only.
C12_SilenceLogicUnreachable ==
    /\ [](wpc \notin SilencePositions)
    /\ [](final_results = <<>> /\ silence_counter = 0)
    /\ [][(is_speaking /\ ~is_speaking') => cpc = "reset_is_speaking"]_vars

\* one sub-chunk of speech and then enough silent ones for a final result
\* have been processed, and the run is still open with no final result
C12_Witness ==
    /\ nResets = 0
    /\ WorkerBetween
    /\ SpeechThenSilence(1)
    /\ is_speaking
    /\ final_results = <<>>

\* the k-th segment of the timeline as the loop sees it
ClampedStart(k) == Max(0, sad_segments[k].start)
ClampedEnd(k) == Min(AudioEnd(wav_ms), sad_segments[k].end)

\* the gap between the two segments of a timeline of two
GapOfTwo == ClampedStart(2) - ClampedEnd(1)

\* curr_duration after the first of two segments: the loop counts it from
\* time 0, or from the segment's start when the segment ends after
\* max_duration
AccumulatedAfterFirst ==
    IF ClampedEnd(1) > max_duration
    THEN ClampedEnd(1) - ClampedStart(1)
    ELSE ClampedEnd(1)

TwoSegmentsDone == spc = "returned" /\ Len(sad_segments) = 2

\* C13 as stated: on a timeline of two segments, a gap below
\* new_chunk_threshold gives one output chunk; a gap above it, after more
\* than min_duration accumulated, gives two.
C13_MergeOrSplitByGap ==
    TwoSegmentsDone =>
        /\ GapOfTwo < new_chunk_threshold => Len(boundaries) = 1
        /\ (GapOfTwo > new_chunk_threshold
              /\ AccumulatedAfterFirst > min_duration) => Len(boundaries) = 2

\* C13 amended: a gap below new_chunk_threshold gives one output chunk only
\* when the chunk extended to the end of the second segment stays within
\* max_duration; beyond max_duration there are two chunks whatever the gap;
\* a gap above the threshold after more than min_duration gives two.
C13_MergeOrSplitByGapWithinMax ==
    TwoSegmentsDone =>
        /\ (GapOfTwo < new_chunk_threshold
              /\ AccumulatedAfterFirst + (ClampedEnd(2) - ClampedEnd(1))
                    <= max_duration) => Len(boundaries) = 1
        /\ AccumulatedAfterFirst + (ClampedEnd(2) - ClampedEnd(1))
              > max_duration => Len(boundaries) = 2
        /\ (GapOfTwo > new_chunk_threshold
              /\ AccumulatedAfterFirst > min_duration) => Len(boundaries) = 2

\* two segments with a small gap, the first longer than min_duration, were
\* merged into one chunk
C13_Witness ==
    /\ TwoSegmentsDone
    /\ GapOfTwo < new_chunk_threshold
    /\ AccumulatedAfterFirst > min_duration
    /\ Len(boundaries) = 1

\* C14: every boundary emitted is at most max_duration long.
C14_ChunksWithinMaxDuration ==
    \A k \in 1..Len(boundaries) :
        boundaries[k][2] - boundaries[k][1] <= max_duration

\* C15: use_vad stays what __init__ made it, which is false when HF_TOKEN is
\* absent or get_pipeline fails; with use_vad false every call returns the
\* energy classification of its sub-chunk without touching the oracle; a call
\* whose oracle invocation fails returns the energy classification of its
\* sub-chunk with use_vad still true; no call raises.
C15_VadFailuresDegradeToEnergy ==
    /\ use_vad = InitUseVad(built)
    /\ (~built.HF_TOKEN \/ ~built.loads) => ~use_vad
    /\ (~use_vad /\ nVadCalls > 0) =>
          /\ vad_ret = ToRet(_detect_speech_energy(vad_in))
          /\ vad_oracle = "unused"
    /\ vad_oracle = "failed" =>
          /\ use_vad
          /\ vad_ret = ToRet(_detect_speech_energy(vad_in))
    /\ nVadCalls > 0 => vad_ret \in {"True", "False"}

\* the oracle failed on the last call, which was passed a loud sub-chunk
\* after the window had filled, and the one before was answered
C15_Witness ==
    /\ use_vad
    /\ vad_oracle = "failed"
    /\ _detect_speech_energy(vad_in)
    /\ nVadCalls = MaxVadCalls
    /\ Len(vad_buffer) = 1

\* the worker thread has ended: its loop was left, or an exception ended it
WorkerEnded == wpc \in {"done", "crashed"}

\* C16: after stop() has cleared running the worker classifies at most one
\* more sub-chunk and emits at most one more result, and its thread ends.
C16_StopsBetweenSubchunks ==
    /\ [](sinceStop.heard <= 1 /\ sinceStop.emitted <= 1)
    /\ (~running ~> WorkerEnded)

\* the worker has left its loop after one classification and one result
\* that came after stop()
C16_Witness ==
    /\ wpc = "done"
    /\ sinceStop.heard = 1
    /\ sinceStop.emitted = 1

\* ceil(a / b)
CeilDiv(a, b) == (a + b - 1) \div b

\* how many sub-chunks of the block in audio_chunk have been classified
Classified == i \div chunk_size - (IF wpc = "detect" THEN 1 ELSE 0)

\* those sub-chunks, in the order they were classified
BlockHeard == SubSeq(heard, Len(heard) - Classified + 1, Len(heard))

\* the worker is not inside the for loop
OutsideBlock == wpc \in {"while", "lock", "sleep_locked", "done"}

\* C17: the k-th sub-chunk classified of a drained block of L samples is the
\* slice of the block from sample (k-1)*chunk_size on, chunk_size samples
\* long or shorter when it is the last one; at most ceil(L / chunk_size) are
\* classified; when the for loop is left with the block exhausted, which is
\* always so unless stop() was called, exactly that many were, and their
\* concatenation is the block.
C17_SlicingPartitionsBlock ==
    audio_chunk # <<>> =>
        LET L == Len(audio_chunk)
        IN /\ Classified \in 0..CeilDiv(L, chunk_size)
           /\ Classified <= Len(heard)
           /\ \A k \in 1..Classified :
                 /\ BlockHeard[k] =
                       SubSeq(audio_chunk, (k - 1) * chunk_size + 1,
                              Min(k * chunk_size, L))
                 /\ Len(BlockHeard[k]) \in 1..chunk_size
                 /\ k < CeilDiv(L, chunk_size) =>
                       Len(BlockHeard[k]) = chunk_size
           /\ (OutsideBlock /\ i >= L) =>
                 /\ Classified = CeilDiv(L, chunk_size)
                 /\ Concat(BlockHeard) = audio_chunk
           /\ (OutsideBlock /\ running) => i >= L

\* a second block, of three samples, has been sliced into a full sub-chunk
\* and a remainder of one sample
C17_Witness ==
    /\ OutsideBlock
    /\ running
    /\ Len(audio_chunk) = chunk_size + 1
    /\ Classified = 2
    /\ Len(heard) > Classified
    /\ Len(heard[Len(heard)]) = 1

\* C18: whenever _perform_interim_recognition or _finalize_speech_segment
\* is about to run, speaking_buffer holds at least one sub-chunk, and the
\* worker thread is never ended by the exception of torch.cat on an empty
\* list.
C18_RecognitionOnNonEmptyRun ==
    /\ wpc \in {"interim", "finalize"} => speaking_buffer # <<>>
    /\ wpc # "crashed"

\* C19 as stated: whoever holds buffer_lock is at a step that releases it
\* (the worker asleep on an empty buffer, the caller in its eviction loop),
\* and under fair scheduling of the two threads no thread waits on it for
\* ever: a call of add_audio_chunk waiting for the lock gets it, a call of
\* reset() waiting for it gets past it, and every operation begun on the
\* caller's thread returns.
C19_LockAlwaysGranted ==
    /\ [](buffer_lock = "worker" => wpc = "sleep_locked")
    /\ [](buffer_lock = "caller" => cpc = "add_evict")
    /\ (cpc = "add_lock" ~> cpc = "add_evict")
    /\ (cpc = "reset_lock" ~> cpc = "reset_is_speaking")
    /\ (cpc # "idle" ~> cpc = "idle")

\* the caller's positions in reset() after the with-block
ResetPastLock ==
    {"reset_is_speaking", "reset_silence_counter", "reset_speaking_buffer",
     "reset_interim_results"}

\* C19, amended: the system never deadlocks on buffer_lock.  Whoever holds
\* it is at a step that releases it and does release it, and a call that
\* has got the lock (add_audio_chunk) or has got past it (reset) returns.
\* That a waiting call gets the lock is not part of the statement.
C19_LockNeverDeadlocks ==
    /\ [](buffer_lock = "worker" => wpc = "sleep_locked")
    /\ [](buffer_lock = "caller" => cpc = "add_evict")
    /\ (buffer_lock # "free" ~> buffer_lock = "free")
    /\ (cpc = "add_evict" ~> cpc = "idle")
    /\ (cpc \in ResetPastLock ~> cpc = "idle")

\* add_audio_chunk waits for the lock while the worker sleeps holding it, in
\* a running session
C19_Witness ==
    /\ cpc = "add_lock"
    /\ buffer_lock = "worker"
    /\ wpc = "sleep_locked"
    /\ running

\* reset() has been called and has returned
ResetReturned ==
    /\ resetMark >= 0
    /\ cpc \notin {"reset_lock", "reset_is_speaking", "reset_silence_counter",
                 "reset_speaking_buffer",
                   "reset_interim_results"}

\* the numbers of the chunks appended after the last reset()
AfterResetIds == (resetMark + 1)..nCalls

\* C20: once reset() has returned, every sub-chunk the worker seeds a run
\* with or appends to it, and every result it emits, holds only samples of
\* chunks passed to add_audio_chunk after that reset.
C20_ResetDiscardsEarlierAudio ==
    /\ [][(ResetReturned /\ wpc \in {"seed", "append"} /\ wpc' = "stab") =>
              IdsOf(subchunk) \subseteq AfterResetIds]_vars
    /\ [][(ResetReturned /\ emitted' # emitted) =>
              IdsOf(emitted'[Len(emitted')].text) \subseteq AfterResetIds]_vars

\* C21: the boundaries emitted are in strictly increasing time order and do
\* not overlap, each has end > start, and each starts at the clamped start
\* of a segment of the timeline and ends at the clamped end of one, the
\* first chunk included when the first segment begins after time 0.
C21_BoundariesFollowTimeline ==
    /\ \A k \in 1..Len(boundaries) :
          /\ boundaries[k][2] > boundaries[k][1]
          /\ \E j \in 1..Len(sad_segments) :
                boundaries[k][1] = ClampedStart(j)
          /\ \E j \in 1..Len(sad_segments) :
                boundaries[k][2] = ClampedEnd(j)
    /\ \A k \in 1..(Len(boundaries) - 1) :
          /\ boundaries[k][1] < boundaries[k + 1][1]
          /\ boundaries[k][2] <= boundaries[k + 1][1]

====
